---- MODULE Spec2Model ----
(***************************************************************************)
(* Metadata model of the sealy Evaluator (src/sealy/src/evaluator.rs).     *)
(*                                                                         *)
(* Every method of `impl EvaluatorOps for Evaluator` is a thin wrapper:    *)
(* it allocates a destination (or reuses the operand for the _inplace      *)
(* variants), calls one `bindgen::Evaluator_*` entry point of the native   *)
(* engine, lets `try_seal!(..)?` turn a failing return code into an Err,   *)
(* and returns Ok(destination).  The wrappers are modelled from that code. *)
(* The native engine and the error taxonomy live outside src/ and are      *)
(* modelled from the specification's contracts (sections 3, 4.1, 4.2, 7).  *)
(*                                                                         *)
(* A ciphertext is the record [level, scale, size, val]:                   *)
(*   level  number of moduli still present (NumLevels = top, 1 = bottom),  *)
(*   scale  a positive rational <<num, den>> in lowest terms,              *)
(*   size   number of polynomial components,                               *)
(*   val    the value it decrypts to: one slot modulo PlainModulus, or,    *)
(*          where rotations are studied, the whole batched matrix as the   *)
(*          vector of its 2 * RowLen slots, row 0 first.                   *)
(* A plaintext is the same record with size 1; under the exact-integer     *)
(* scheme it carries no level id (level 0).                                *)
(*                                                                         *)
(* `last` records the latest call with its operands as they were before    *)
(* it; `calls` holds, for every caller, the in-place call it has entered   *)
(* and not yet returned from (where concurrent callers are studied).       *)
(***************************************************************************)
EXTENDS Integers, Sequences, FiniteSets, TLC

VARIABLES scheme, ct, last, calls

vars == <<scheme, ct, last, calls>>

(* ------------------------------ bounds --------------------------------- *)

\* Length of the modulus chain available to data (levels 1..NumLevels).
NumLevels == 3
\* Largest ciphertext size the model lets a multiplication produce.
MaxSize == 4
\* Largest numerator / denominator of a scale the model lets an operation produce.
ScaleCap == 4
\* Plaintext modulus of the single encoded slot.
PlainModulus == 3
\* Largest number of relinearization keys a caller may hold.
MaxKeys == 2
\* Longest list handed to add_many.
MaxList == 3
\* Longest list handed to multiply_many.
MaxFactors == 4
\* Largest exponent handed to exponentiate.
MaxExponent == 6
\* Row length N/2 of the 2-by-(N/2) batched matrix.
RowLen == 3

(* --------------------------- context & values --------------------------- *)

Schemes == {"BFV", "CKKS"}
Slots == {"x", "y"}
\* The variable a caller binds the result of a non-inplace call to.
ResultSlot == "y"
Levels == 1..NumLevels
Values == 0..(PlainModulus - 1)

\* Values the model encodes and encrypts.  Under the exact-integer scheme the
\* decrypted value is tracked exactly; under the approximate scheme it is not
\* tracked (a single placeholder), only level, scale and size are.
Inputs(s) == IF s = "BFV" THEN Values ELSE {0}

RECURSIVE GCD(_, _)
GCD(m, n) == IF n = 0 THEN m ELSE GCD(n, m % n)

\* Rational in lowest terms.
Norm(r) == LET g == GCD(r[1], r[2]) IN <<r[1] \div g, r[2] \div g>>
RMul(r, s) == Norm(<<r[1] * s[1], r[2] * s[2]>>)
RDivInt(r, q) == Norm(<<r[1], r[2] * q>>)
One == <<1, 1>>

\* Magnitude of the modulus that leaving level k drops (Context, modulus chain).
Modulus(k) == k

\* Scale the encoder encodes with: a power of two, as in the examples (2^40).
EncScale(s) == IF s = "CKKS" THEN <<2, 1>> ELSE One

\* Ciphertext::new(): an empty ciphertext, no level, no components.
Ciphertext_new == [level |-> 0, scale |-> One, size |-> 0, val |-> 0]
\* No second operand.
NoArg == [level |-> 0, scale |-> One, size |-> 0, val |-> 0]

\* Encryptor output: top of the chain, size 2, encoding scale.
Encrypted(s, v) == [level |-> NumLevels, scale |-> EncScale(s), size |-> 2, val |-> v]

\* Encoder output; under CKKS (NTT-resident) a plaintext carries a level id.
Encoded(s, l, v) ==
    [level |-> IF s = "CKKS" THEN l ELSE 0, scale |-> EncScale(s), size |-> 1, val |-> v]

MaxOf(m, n) == IF m >= n THEN m ELSE n

\* BFVEncoder::decode_i64 on one slot: residues in the upper half of the
\* plaintext modulus are the negative integers.
decode_i64(v) == IF 2 * v >= PlainModulus THEN v - PlainModulus ELSE v

(* ----------------------- native engine (contract) ----------------------- *)

EOk(c) == [status |-> "Ok", out |-> c]

\* Relative tolerance within which two scales count as the same.
ScaleTolerance == <<1, 100>>
\* |s - t| <= ScaleTolerance * max(s, t, 1), by cross-multiplication.
ScaleClose(s, t) ==
    LET l == s[1] * t[2]
        r == t[1] * s[2]
        d == s[2] * t[2]
        diff == IF l >= r THEN l - r ELSE r - l
    IN  diff * ScaleTolerance[2] <= ScaleTolerance[1] * MaxOf(MaxOf(l, r), d)
EFail(e) == [status |-> e, out |-> Ciphertext_new]

Evaluator_Negate(a) ==
    EOk([a EXCEPT !.val = (PlainModulus - a.val) % PlainModulus])

\* Component-wise sum: as many components as the larger operand has.
Evaluator_Add(a, b) ==
    IF a.level # b.level THEN EFail("LevelMismatch")
    ELSE IF ~ScaleClose(a.scale, b.scale) THEN EFail("EngineFailure")
    ELSE EOk([level |-> a.level, scale |-> a.scale,
              size |-> MaxOf(a.size, b.size),
              val |-> (a.val + b.val) % PlainModulus])

Evaluator_Sub(a, b) ==
    IF a.level # b.level THEN EFail("LevelMismatch")
    ELSE IF ~ScaleClose(a.scale, b.scale) THEN EFail("EngineFailure")
    ELSE EOk([level |-> a.level, scale |-> a.scale,
              size |-> MaxOf(a.size, b.size),
              val |-> (a.val + PlainModulus - b.val) % PlainModulus])

Evaluator_Multiply(a, b) ==
    IF a.level # b.level THEN EFail("LevelMismatch")
    ELSE EOk([level |-> a.level, scale |-> RMul(a.scale, b.scale),
              size |-> a.size + b.size - 1,
              val |-> (a.val * b.val) % PlainModulus])

Evaluator_Square(a) ==
    EOk([level |-> a.level, scale |-> RMul(a.scale, a.scale),
         size |-> 2 * a.size - 1,
         val |-> (a.val * a.val) % PlainModulus])

\* A plaintext without a level id (exact-integer scheme) combines at any level.
PlainLevelOk(a, p) == p.level = 0 \/ p.level = a.level

Evaluator_AddPlain(a, p) ==
    IF ~PlainLevelOk(a, p) THEN EFail("LevelMismatch")
    ELSE IF ~ScaleClose(a.scale, p.scale) THEN EFail("EngineFailure")
    ELSE EOk([a EXCEPT !.val = (a.val + p.val) % PlainModulus])

Evaluator_SubPlain(a, p) ==
    IF ~PlainLevelOk(a, p) THEN EFail("LevelMismatch")
    ELSE IF ~ScaleClose(a.scale, p.scale) THEN EFail("EngineFailure")
    ELSE EOk([a EXCEPT !.val = (a.val + PlainModulus - p.val) % PlainModulus])

Evaluator_MultiplyPlain(a, p) ==
    IF ~PlainLevelOk(a, p) THEN EFail("LevelMismatch")
    ELSE EOk([a EXCEPT !.scale = RMul(a.scale, p.scale),
                       !.val = (a.val * p.val) % PlainModulus])

\* A ciphertext of size K+1 needs K-1 keys.
Evaluator_Relinearize(a, keys) ==
    IF a.size - 2 > keys THEN EFail("InsufficientKeyMaterial")
    ELSE EOk([a EXCEPT !.size = 2])

Evaluator_RescaleToNext(s, a) ==
    IF a.level = 1 THEN EFail("ChainExhausted")
    ELSE IF s # "CKKS" THEN EFail("EngineFailure")
    ELSE EOk([a EXCEPT !.level = a.level - 1,
                       !.scale = RDivInt(a.scale, Modulus(a.level))])

Evaluator_ModSwitchToNext1(a) ==
    IF a.level = 1 THEN EFail("ChainExhausted")
    ELSE EOk([a EXCEPT !.level = a.level - 1])

\* Plaintext variant: only a plaintext that carries a level id can be switched.
Evaluator_ModSwitchToNext2(p) ==
    IF p.level = 0 THEN EFail("EngineFailure")
    ELSE IF p.level = 1 THEN EFail("ChainExhausted")
    ELSE EOk([p EXCEPT !.level = p.level - 1])

\* Switch down to a named level of the chain.  The target may be the current
\* level: examples/polynomial.rs switches values that already sit at the last
\* level to the last level and goes on to use them.
Evaluator_ModSwitchTo1(a, target) ==
    IF target > a.level THEN EFail("InvalidLevelTarget")
    ELSE EOk([a EXCEPT !.level = target])

Evaluator_ModSwitchTo2(p, target) ==
    IF p.level = 0 THEN EFail("EngineFailure")
    ELSE IF target > p.level THEN EFail("InvalidLevelTarget")
    ELSE EOk([p EXCEPT !.level = target])

RECURSIVE SumVal(_)
SumVal(l) == IF l = <<>> THEN 0 ELSE (Head(l).val + SumVal(Tail(l))) % PlainModulus

RECURSIVE MaxSizeOf(_)
MaxSizeOf(l) == IF l = <<>> THEN 0 ELSE MaxOf(Head(l).size, MaxSizeOf(Tail(l)))

\* Sum of a list: non-empty, one level id, one scale.
Evaluator_AddMany(l) ==
    IF l = <<>> THEN EFail("EngineFailure")
    ELSE IF \E i \in 1..Len(l) : l[i].level # l[1].level THEN EFail("LevelMismatch")
    ELSE IF \E i \in 1..Len(l) : l[i].scale # l[1].scale THEN EFail("EngineFailure")
    ELSE EOk([level |-> l[1].level, scale |-> l[1].scale,
              size |-> MaxSizeOf(l), val |-> SumVal(l)])

\* A ciphertext inside a reduction, with the multiplicative depth spent on it.
Node(c, d) == [c |-> c, depth |-> d]

\* One pairwise product of a reduction: multiply, then relinearize at once.
EngineProduct(x, y, keys) ==
    LET m == Evaluator_Multiply(x.c, y.c)
        r == Evaluator_Relinearize(m.out, keys)
    IN  IF m.status # "Ok"
        THEN [status |-> m.status, node |-> x, size |-> 0, log |-> <<"multiply">>]
        ELSE [status |-> r.status,
              node |-> Node(r.out, MaxOf(x.depth, y.depth) + 1),
              size |-> m.out.size,
              log |-> <<"multiply", "relinearize">>]

RunFail(e, peak, log) ==
    [status |-> e, out |-> Ciphertext_new, depth |-> 0, peak |-> peak, log |-> log]

\* Balanced product tree: the two oldest factors are multiplied and their
\* product joins the back of the queue, until one ciphertext is left.
RECURSIVE TreeRun(_, _, _, _)
TreeRun(q, keys, peak, log) ==
    IF Len(q) = 1
    THEN [status |-> "Ok", out |-> q[1].c, depth |-> q[1].depth, peak |-> peak, log |-> log]
    ELSE LET p == EngineProduct(q[1], q[2], keys)
         IN  IF p.status # "Ok" THEN RunFail(p.status, MaxOf(peak, p.size), log \o p.log)
             ELSE TreeRun(SubSeq(q, 3, Len(q)) \o <<p.node>>, keys,
                          MaxOf(peak, p.size), log \o p.log)

MultiplyManyRun(l, keys) ==
    TreeRun([i \in 1..Len(l) |-> Node(l[i], 0)], keys, MaxSizeOf(l), <<>>)

\* Product of a list: non-empty; every pairwise product is relinearized.
Evaluator_MultiplyMany(l, keys) ==
    LET run == MultiplyManyRun(l, keys)
    IN  IF l = <<>> THEN EFail("EngineFailure")
        ELSE IF run.status # "Ok" THEN EFail(run.status)
        ELSE EOk(run.out)

\* Square-and-multiply from the low bit of the exponent up: base runs through
\* a^1, a^2, a^4, ... by squaring, acc collects the powers whose bit is set.
RECURSIVE PowerRun(_, _, _, _, _, _, _)
PowerRun(acc, hasAcc, base, e, keys, peak, log) ==
    LET odd == e % 2 = 1
        a1 == IF odd /\ hasAcc THEN EngineProduct(acc, base, keys)
              ELSE [status |-> "Ok", node |-> IF odd THEN base ELSE acc,
                    size |-> 0, log |-> <<>>]
        b1 == EngineProduct(base, base, keys)
    IN  IF a1.status # "Ok" THEN RunFail(a1.status, MaxOf(peak, a1.size), log \o a1.log)
        ELSE IF e = 1
        THEN [status |-> "Ok", out |-> a1.node.c, depth |-> a1.node.depth,
              peak |-> MaxOf(peak, a1.size), log |-> log \o a1.log]
        ELSE IF b1.status # "Ok"
        THEN RunFail(b1.status, MaxOf(peak, MaxOf(a1.size, b1.size)), log \o a1.log \o b1.log)
        ELSE PowerRun(a1.node, hasAcc \/ odd, b1.node, e \div 2, keys,
                      MaxOf(peak, MaxOf(a1.size, b1.size)), log \o a1.log \o b1.log)

\* Mutant: a is multiplied into the running product e - 1 times.
RECURSIVE RepeatedRun(_, _, _, _, _, _)
RepeatedRun(acc, base, e, keys, peak, log) ==
    IF e <= 1
    THEN [status |-> "Ok", out |-> acc.c, depth |-> acc.depth, peak |-> peak, log |-> log]
    ELSE LET p == EngineProduct(acc, base, keys)
         IN  IF p.status # "Ok" THEN RunFail(p.status, MaxOf(peak, p.size), log \o p.log)
             ELSE RepeatedRun(p.node, base, e - 1, keys, MaxOf(peak, p.size), log \o p.log)

ExponentiateRun_repeated(a, e, keys) ==
    RepeatedRun(Node(a, 0), Node(a, 0), e, keys, a.size, <<>>)
ExponentiateRun(a, e, keys) ==
    PowerRun(Node(a, 0), FALSE, Node(a, 0), e, keys, a.size, <<>>)

\* a to the power e; e = 0 is refused.
Evaluator_Exponentiate(a, e, keys) ==
    LET run == ExponentiateRun(a, e, keys)
    IN  IF e = 0 THEN EFail("EngineFailure")
        ELSE IF run.status # "Ok" THEN EFail(run.status)
        ELSE EOk(run.out)

\* Slots of the batched matrix, as the encoder numbers them (from 1 here).
MatrixSlots == 1..(2 * RowLen)
RowOf(k) == (k - 1) \div RowLen
ColOf(k) == (k - 1) % RowLen
SlotAt(r, c) == r * RowLen + c + 1

\* Both rows rotated cyclically, to the left for steps > 0, to the right for
\* steps < 0; a step count of absolute value N/2 or more is refused.  The
\* Galois keys are those of create_galois_keys(), which cover every rotation.
Evaluator_RotateRows(a, steps) ==
    IF steps >= RowLen \/ -steps >= RowLen THEN EFail("InvalidRotationStep")
    ELSE EOk([a EXCEPT !.val =
                  [k \in MatrixSlots |->
                      a.val[SlotAt(RowOf(k), (ColOf(k) + steps + RowLen) % RowLen)]]])

\* The two rows swapped.
Evaluator_RotateColumns(a) ==
    EOk([a EXCEPT !.val = [k \in MatrixSlots |-> a.val[SlotAt(1 - RowOf(k), ColOf(k))]]])

(* ------------------------------ wrappers -------------------------------- *)

\* try_seal!(..)?; Ok(dst): a failing engine call is returned as the error.
try_seal(r) == IF r.status = "Ok" THEN r ELSE EFail(r.status)

\* Mutant: the engine is not called, the operand is returned as it is.
negate_inplace_skips_engine(a) == EOk(a)
negate_inplace(a) == try_seal(Evaluator_Negate(a))
negate(a) == try_seal(Evaluator_Negate(a))

\* Mutant: the addition wrapper calls the multiplication entry point.
add_inplace_calls_multiply(a, b) == try_seal(Evaluator_Multiply(a, b))
add_inplace(a, b) == try_seal(Evaluator_Add(a, b))
\* Mutant: the `?` is missing, the untouched destination is returned as Ok.
add_drops_error(a, b) == EOk(Evaluator_Add(a, b).out)
add(a, b) == try_seal(Evaluator_Add(a, b))

\* Mutant: the length handed to the engine is one short.
add_many_short(l) == try_seal(Evaluator_AddMany(SubSeq(l, 1, Len(l) - 1)))
add_many(l) == try_seal(Evaluator_AddMany(l))

\* Mutant: the length handed to the engine is one short.
multiply_many_short(l, keys) ==
    try_seal(Evaluator_MultiplyMany(SubSeq(l, 1, Len(l) - 1), keys))
\* Mutant: the `?` is missing, the untouched destination is returned as Ok.
multiply_many_drops_error(l, keys) == EOk(Evaluator_MultiplyMany(l, keys).out)
multiply_many(l, keys) == try_seal(Evaluator_MultiplyMany(l, keys))

sub_inplace(a, b) == try_seal(Evaluator_Sub(a, b))
\* Mutant: the operands reach the engine in the wrong order.
sub_swaps_operands(a, b) == try_seal(Evaluator_Sub(b, a))
sub(a, b) == try_seal(Evaluator_Sub(a, b))

\* Mutant: the multiplication wrapper calls the addition entry point.
multiply_inplace_calls_add(a, b) == try_seal(Evaluator_Add(a, b))
multiply_inplace(a, b) == try_seal(Evaluator_Multiply(a, b))
multiply(a, b) == try_seal(Evaluator_Multiply(a, b))

square_inplace(a) == try_seal(Evaluator_Square(a))
\* Mutant: a + a instead of a * a.
square_calls_add(a) == try_seal(Evaluator_Add(a, a))
square(a) == try_seal(Evaluator_Square(a))

\* Mutant: the operand is passed as the destination and the untouched new
\* ciphertext is returned.
mod_switch_to_next_returns_new(a) ==
    IF Evaluator_ModSwitchToNext1(a).status = "Ok" THEN EOk(Ciphertext_new)
    ELSE EFail(Evaluator_ModSwitchToNext1(a).status)
mod_switch_to_next(a) == try_seal(Evaluator_ModSwitchToNext1(a))
\* Mutant: the `?` is missing, Ok(()) is returned whatever the engine said.
mod_switch_to_next_inplace_drops_error(a) ==
    IF Evaluator_ModSwitchToNext1(a).status = "Ok" THEN Evaluator_ModSwitchToNext1(a)
    ELSE EOk(a)
mod_switch_to_next_inplace(a) == try_seal(Evaluator_ModSwitchToNext1(a))
mod_switch_to_next_plaintext(p) == try_seal(Evaluator_ModSwitchToNext2(p))
mod_switch_to_next_inplace_plaintext(p) == try_seal(Evaluator_ModSwitchToNext2(p))

\* Mutant: the operand is passed as the destination and the untouched new
\* ciphertext is returned.
exponentiate_returns_new(a, e, keys) ==
    IF Evaluator_Exponentiate(a, e, keys).status = "Ok" THEN EOk(Ciphertext_new)
    ELSE EFail(Evaluator_Exponentiate(a, e, keys).status)
exponentiate(a, e, keys) == try_seal(Evaluator_Exponentiate(a, e, keys))
\* Mutant: the `?` is missing, Ok(()) is returned whatever the engine said.
exponentiate_inplace_drops_error(a, e, keys) ==
    IF Evaluator_Exponentiate(a, e, keys).status = "Ok" THEN Evaluator_Exponentiate(a, e, keys)
    ELSE EOk(a)
exponentiate_inplace(a, e, keys) == try_seal(Evaluator_Exponentiate(a, e, keys))

\* Mutant: the `?` is missing, the untouched destination is returned as Ok.
add_plain_drops_error(a, p) == EOk(Evaluator_AddPlain(a, p).out)
add_plain(a, p) == try_seal(Evaluator_AddPlain(a, p))
add_plain_inplace(a, p) == try_seal(Evaluator_AddPlain(a, p))
sub_plain(a, p) == try_seal(Evaluator_SubPlain(a, p))
sub_plain_inplace(a, p) == try_seal(Evaluator_SubPlain(a, p))
multiply_plain(a, p) == try_seal(Evaluator_MultiplyPlain(a, p))
multiply_plain_inplace(a, p) == try_seal(Evaluator_MultiplyPlain(a, p))

\* Mutant: the result is written to a temporary, the operand stays as it was.
relinearize_inplace_keeps_operand(a, keys) ==
    IF Evaluator_Relinearize(a, keys).status = "Ok" THEN EOk(a)
    ELSE EFail(Evaluator_Relinearize(a, keys).status)
relinearize_inplace(a, keys) == try_seal(Evaluator_Relinearize(a, keys))
\* Mutant: the `?` is missing, the untouched destination is returned as Ok.
relinearize_drops_error(a, keys) == EOk(Evaluator_Relinearize(a, keys).out)
relinearize(a, keys) == try_seal(Evaluator_Relinearize(a, keys))

\* Mutant: the `?` is missing, the untouched destination is returned as Ok.
rotate_rows_drops_error(a, steps) == EOk(Evaluator_RotateRows(a, steps).out)
rotate_rows(a, steps) == try_seal(Evaluator_RotateRows(a, steps))
\* Mutant: the direction is turned round.
rotate_rows_inplace_negates_steps(a, steps) == try_seal(Evaluator_RotateRows(a, -steps))
rotate_rows_inplace(a, steps) == try_seal(Evaluator_RotateRows(a, steps))
\* Mutant: the column rotation calls the row rotation, one step.
rotate_columns_calls_rotate_rows(a) == try_seal(Evaluator_RotateRows(a, 1))
rotate_columns(a) == try_seal(Evaluator_RotateColumns(a))
rotate_columns_inplace(a) == try_seal(Evaluator_RotateColumns(a))

\* Mutant: the rescale wrapper calls the mod-switch entry point.
rescale_to_next_inplace_calls_mod_switch(s, a) == try_seal(Evaluator_ModSwitchToNext1(a))
rescale_to_next_inplace(s, a) == try_seal(Evaluator_RescaleToNext(s, a))
\* Mutant: the `?` is missing, the untouched destination is returned as Ok.
rescale_to_next_drops_error(s, a) == EOk(Evaluator_RescaleToNext(s, a).out)
rescale_to_next(s, a) == try_seal(Evaluator_RescaleToNext(s, a))

\* Called by examples/polynomial.rs.
mod_switch_to_inplace(a, target) == try_seal(Evaluator_ModSwitchTo1(a, target))
mod_switch_to_inplace_plaintext(p, target) == try_seal(Evaluator_ModSwitchTo2(p, target))

(* --------------------- sign approximation (ext/sgn) --------------------- *)

\* The coefficient sets in the order sign_inplace applies them: degree 3,
\* degree 7, then degree 15 twice (the `for i in 0..2` loop).
SignStages == <<"COEFFS_N3", "COEFFS_N7", "COEFFS_N15", "COEFFS_N15">>

\* encoder.encode_f64(coeffs): CKKSEncoder::new(ctx, 2^40) encodes at the top
\* of the chain with the encoding scale.
EncodedCoeffs(coeffs) == Encoded("CKKS", NumLevels, 0)

Step(op, arg) == [op |-> op, arg |-> arg]

\* Evaluator::new(ctx): Evaluator_Create on the context of the caller.
Evaluator_new(ctx) == [status |-> "Ok"]

\* CKKSEncoder::new(ctx, scale): only a context of the approximate scheme has
\* such an encoder.
CKKSEncoder_new(ctx, sc) == [status |-> IF ctx = "CKKS" THEN "Ok" ELSE "EngineFailure"]

\* encoder.encode_f64(coeffs), with its outcome.
encode_f64(coeffs) == EOk(EncodedCoeffs(coeffs))

\* The statements of sign_inplace before the first stage: the evaluator, the
\* encoder, the three coefficient plaintexts; each ends in `?`.
SignSetup(ctx) ==
    LET e == Evaluator_new(ctx)
        t1 == <<Step("Evaluator::new", "")>>
        c == CKKSEncoder_new(ctx, EncScale("CKKS"))
        t2 == Append(t1, Step("CKKSEncoder::new", ""))
        p3 == encode_f64("COEFFS_N3")
        t3 == Append(t2, Step("encode_f64", "COEFFS_N3"))
        p7 == encode_f64("COEFFS_N7")
        t4 == Append(t3, Step("encode_f64", "COEFFS_N7"))
        p15 == encode_f64("COEFFS_N15")
        t5 == Append(t4, Step("encode_f64", "COEFFS_N15"))
    IN  IF e.status # "Ok" THEN [status |-> e.status, trace |-> t1]
        ELSE IF c.status # "Ok" THEN [status |-> c.status, trace |-> t2]
        ELSE IF p3.status # "Ok" THEN [status |-> p3.status, trace |-> t3]
        ELSE IF p7.status # "Ok" THEN [status |-> p7.status, trace |-> t4]
        ELSE [status |-> p15.status, trace |-> t5]

\* Mutant: every stage ends with the rescale the TODO comments announce, while
\* the coefficient plaintexts stay encoded at the top level.
RECURSIVE SignRescaledFrom(_, _, _, _)
SignRescaledFrom(a, keys, stages, trace) ==
    IF stages = <<>> THEN [status |-> "Ok", out |-> a, trace |-> trace]
    ELSE LET m == multiply_plain_inplace(a, EncodedCoeffs(Head(stages)))
             t1 == Append(trace, Step("multiply_plain_inplace", Head(stages)))
             r == relinearize_inplace(m.out, keys)
             t2 == Append(t1, Step("relinearize_inplace", ""))
             n == rescale_to_next_inplace("CKKS", r.out)
             t3 == Append(t2, Step("rescale_to_next_inplace", ""))
         IN  IF m.status # "Ok" THEN [status |-> m.status, out |-> a, trace |-> t1]
             ELSE IF r.status # "Ok" THEN [status |-> r.status, out |-> m.out, trace |-> t2]
             ELSE IF n.status # "Ok" THEN [status |-> n.status, out |-> r.out, trace |-> t3]
             ELSE SignRescaledFrom(n.out, keys, Tail(stages), t3)
sign_inplace_rescales(a, ctx, keys) ==
    LET s == SignSetup(ctx)
        r == SignRescaledFrom(a, keys, SignStages, <<>>)
    IN  IF s.status # "Ok"
        THEN [status |-> s.status, out |-> a, trace |-> <<>>, setup |-> s.trace]
        ELSE [status |-> r.status, out |-> r.out, trace |-> r.trace, setup |-> s.trace]

\* The stages still to run on a: multiply_plain_inplace(a, plain)?;
\* relinearize_inplace(a, relin_keys)?; and no rescale.  A step that fails
\* returns its error at once; a keeps what the earlier steps made of it.
RECURSIVE SignFrom(_, _, _, _)
SignFrom(a, keys, stages, trace) ==
    IF stages = <<>> THEN [status |-> "Ok", out |-> a, trace |-> trace]
    ELSE LET m == multiply_plain_inplace(a, EncodedCoeffs(Head(stages)))
             t1 == Append(trace, Step("multiply_plain_inplace", Head(stages)))
             r == relinearize_inplace(m.out, keys)
             t2 == Append(t1, Step("relinearize_inplace", ""))
         IN  IF m.status # "Ok" THEN [status |-> m.status, out |-> a, trace |-> t1]
             ELSE IF r.status # "Ok" THEN [status |-> r.status, out |-> m.out, trace |-> t2]
             ELSE SignFrom(r.out, keys, Tail(stages), t2)

\* Mutant: the result of relinearize_inplace is discarded instead of returned.
RECURSIVE SignContinuingFrom(_, _, _, _)
SignContinuingFrom(a, keys, stages, trace) ==
    IF stages = <<>> THEN [status |-> "Ok", out |-> a, trace |-> trace]
    ELSE LET m == multiply_plain_inplace(a, EncodedCoeffs(Head(stages)))
             t1 == Append(trace, Step("multiply_plain_inplace", Head(stages)))
             r == relinearize_inplace(m.out, keys)
             t2 == Append(t1, Step("relinearize_inplace", ""))
         IN  IF m.status # "Ok" THEN [status |-> m.status, out |-> a, trace |-> t1]
             ELSE SignContinuingFrom(IF r.status = "Ok" THEN r.out ELSE m.out,
                                     keys, Tail(stages), t2)
sign_inplace_continues(a, ctx, keys) ==
    LET s == SignSetup(ctx)
        r == SignContinuingFrom(a, keys, SignStages, <<>>)
    IN  IF s.status # "Ok"
        THEN [status |-> s.status, out |-> a, trace |-> <<>>, setup |-> s.trace]
        ELSE [status |-> r.status, out |-> r.out, trace |-> r.trace, setup |-> s.trace]

\* `setup` holds the statements run before the first stage, `trace` the
\* evaluator calls run on a.
sign_inplace(a, ctx, keys) ==
    LET s == SignSetup(ctx)
        r == SignFrom(a, keys, SignStages, <<>>)
    IN  IF s.status # "Ok"
        THEN [status |-> s.status, out |-> a, trace |-> <<>>, setup |-> s.trace]
        ELSE [status |-> r.status, out |-> r.out, trace |-> r.trace, setup |-> s.trace]

(* ------------------ polynomial evaluation (examples) -------------------- *)

\* Ciphertext::set_scale: overwrites the scale the ciphertext carries.
set_scale(a, sc) == EOk([a EXCEPT !.scale = sc])

\* Context::get_last_parms_id: the lowest level of the chain.
get_last_parms_id == 1

\* One statement of main: the method, the variable that receives the result,
\* the variable it reads, and its second operand or target.
Stmt(op, dst, a, b) == [op |-> op, dst |-> dst, a |-> a, b |-> b]

\* Mutant: the two set_scale statements are missing.
PolySteps_keeps_scales ==
    << Stmt("square", "x3_encrypted", "x1_encrypted", "none"),
       Stmt("relinearize_inplace", "x3_encrypted", "x3_encrypted", "none"),
       Stmt("rescale_to_next_inplace", "x3_encrypted", "x3_encrypted", "none"),
       Stmt("multiply_plain", "x1_encrypted_coeff3", "x1_encrypted", "plain_coeff3"),
       Stmt("rescale_to_next_inplace", "x1_encrypted_coeff3", "x1_encrypted_coeff3", "none"),
       Stmt("multiply_inplace", "x3_encrypted", "x3_encrypted", "x1_encrypted_coeff3"),
       Stmt("relinearize_inplace", "x3_encrypted", "x3_encrypted", "none"),
       Stmt("rescale_to_next_inplace", "x3_encrypted", "x3_encrypted", "none"),
       Stmt("multiply_plain_inplace", "x1_encrypted", "x1_encrypted", "plain_coeff1"),
       Stmt("rescale_to_next_inplace", "x1_encrypted", "x1_encrypted", "none"),
       Stmt("mod_switch_to_inplace", "x3_encrypted", "x3_encrypted", "last_parms_id"),
       Stmt("mod_switch_to_inplace", "x1_encrypted", "x1_encrypted", "last_parms_id"),
       Stmt("mod_switch_to_inplace_plaintext", "plain_coeff0", "plain_coeff0", "last_parms_id"),
       Stmt("mod_switch_to_inplace", "x1_encrypted", "x1_encrypted", "x3_encrypted"),
       Stmt("mod_switch_to_inplace_plaintext", "plain_coeff0", "plain_coeff0", "x3_encrypted"),
       Stmt("add", "encrypted_result", "x3_encrypted", "x1_encrypted"),
       Stmt("add_plain_inplace", "encrypted_result", "encrypted_result", "plain_coeff0") >>

\* The evaluator calls and scale assignments of main, in program order.
PolySteps ==
    << Stmt("square", "x3_encrypted", "x1_encrypted", "none"),
       Stmt("relinearize_inplace", "x3_encrypted", "x3_encrypted", "none"),
       Stmt("rescale_to_next_inplace", "x3_encrypted", "x3_encrypted", "none"),
       Stmt("multiply_plain", "x1_encrypted_coeff3", "x1_encrypted", "plain_coeff3"),
       Stmt("rescale_to_next_inplace", "x1_encrypted_coeff3", "x1_encrypted_coeff3", "none"),
       Stmt("multiply_inplace", "x3_encrypted", "x3_encrypted", "x1_encrypted_coeff3"),
       Stmt("relinearize_inplace", "x3_encrypted", "x3_encrypted", "none"),
       Stmt("rescale_to_next_inplace", "x3_encrypted", "x3_encrypted", "none"),
       Stmt("multiply_plain_inplace", "x1_encrypted", "x1_encrypted", "plain_coeff1"),
       Stmt("rescale_to_next_inplace", "x1_encrypted", "x1_encrypted", "none"),
       Stmt("mod_switch_to_inplace", "x3_encrypted", "x3_encrypted", "last_parms_id"),
       Stmt("mod_switch_to_inplace", "x1_encrypted", "x1_encrypted", "last_parms_id"),
       Stmt("mod_switch_to_inplace_plaintext", "plain_coeff0", "plain_coeff0", "last_parms_id"),
       Stmt("set_scale", "x3_encrypted", "x3_encrypted", "none"),
       Stmt("set_scale", "x1_encrypted", "x1_encrypted", "none"),
       Stmt("mod_switch_to_inplace", "x1_encrypted", "x1_encrypted", "x3_encrypted"),
       Stmt("mod_switch_to_inplace_plaintext", "plain_coeff0", "plain_coeff0", "x3_encrypted"),
       Stmt("add", "encrypted_result", "x3_encrypted", "x1_encrypted"),
       Stmt("add_plain_inplace", "encrypted_result", "encrypted_result", "plain_coeff0") >>

\* The variables of main once x1_encrypted is there: the coefficient plaintexts
\* are encoded with the encoding scale at the top of the chain.
PolyEnv(x) ==
    [x1_encrypted |-> x,
     x3_encrypted |-> Ciphertext_new,
     x1_encrypted_coeff3 |-> Ciphertext_new,
     encrypted_result |-> Ciphertext_new,
     plain_coeff3 |-> Encoded("CKKS", NumLevels, 0),
     plain_coeff1 |-> Encoded("CKKS", NumLevels, 0),
     plain_coeff0 |-> Encoded("CKKS", NumLevels, 0)]

\* The level a mod-switch statement names: the last level of the context, or
\* the level of another variable (x3_encrypted.get_parms_id()).
PolyTarget(st, env) ==
    IF st.b = "last_parms_id" THEN get_last_parms_id ELSE env[st.b].level

PolyExec(st, env, keys) ==
    CASE st.op = "square" -> square(env[st.a])
      [] st.op = "relinearize_inplace" -> relinearize_inplace(env[st.a], keys)
      [] st.op = "rescale_to_next_inplace" -> rescale_to_next_inplace("CKKS", env[st.a])
      [] st.op = "multiply_plain" -> multiply_plain(env[st.a], env[st.b])
      [] st.op = "multiply_inplace" -> multiply_inplace(env[st.a], env[st.b])
      [] st.op = "multiply_plain_inplace" -> multiply_plain_inplace(env[st.a], env[st.b])
      [] st.op = "mod_switch_to_inplace"
            -> mod_switch_to_inplace(env[st.a], PolyTarget(st, env))
      [] st.op = "mod_switch_to_inplace_plaintext"
            -> mod_switch_to_inplace_plaintext(env[st.a], PolyTarget(st, env))
      [] st.op = "set_scale" -> set_scale(env[st.a], EncScale("CKKS"))
      [] st.op = "add" -> add(env[st.a], env[st.b])
      [] st.op = "add_plain_inplace" -> add_plain_inplace(env[st.a], env[st.b])

\* What a statement leaves in the trace: itself, its outcome, and its operands
\* as they were when it ran.
Ran(st, env, r) ==
    [op |-> st.op, dst |-> st.dst, status |-> r.status, a |-> env[st.a],
     b |-> IF st.b \in DOMAIN env THEN env[st.b] ELSE NoArg]

\* The statements still to run; every one ends in `?`, so the first error is
\* returned at once.
RECURSIVE PolyFrom(_, _, _, _)
PolyFrom(env, keys, steps, trace) ==
    IF steps = <<>>
    THEN [status |-> "Ok", out |-> env.encrypted_result, trace |-> trace]
    ELSE LET st == Head(steps)
             r == PolyExec(st, env, keys)
             t == Append(trace, Ran(st, env, r))
         IN  IF r.status # "Ok"
             THEN [status |-> r.status, out |-> Ciphertext_new, trace |-> t]
             ELSE PolyFrom([env EXCEPT ![st.dst] = r.out], keys, Tail(steps), t)

\* main from "Compute x^2" to the final add_plain_inplace, on x1_encrypted.
polynomial_keeps_scales(x, keys) == PolyFrom(PolyEnv(x), keys, PolySteps_keeps_scales, <<>>)
polynomial(x, keys) == PolyFrom(PolyEnv(x), keys, PolySteps, <<>>)

(* ------------------------------- actions -------------------------------- *)

\* The model explores only results within its bounds.
Bounded(c) == c.size <= MaxSize /\ c.scale[1] <= ScaleCap /\ c.scale[2] <= ScaleCap

Record(op, a, b, args, keys, target, dst, r) ==
    [op |-> op, status |-> r.status, a |-> a, b |-> b, args |-> args,
     keys |-> keys, target |-> target, dst |-> dst, out |-> r.out]

\* Mutant: the destination is overwritten with whatever the call left in its
\* result, also when the call failed.
Call_writes_on_error(op, a, b, args, keys, target, dst, r) ==
    /\ Bounded(r.out)
    /\ last' = Record(op, a, b, args, keys, target, dst, r)
    /\ ct' = IF dst \in Slots THEN [ct EXCEPT ![dst] = r.out] ELSE ct
    /\ UNCHANGED <<scheme, calls>>

\* One call: the outcome is recorded; a successful call writes its destination.
\* `target` holds the call's scalar argument: a level, an exponent, a step count.
Call(op, a, b, args, keys, target, dst, r) ==
    /\ Bounded(r.out)
    /\ last' = Record(op, a, b, args, keys, target, dst, r)
    /\ ct' = IF r.status = "Ok" /\ dst \in Slots THEN [ct EXCEPT ![dst] = r.out] ELSE ct
    /\ UNCHANGED <<scheme, calls>>

Plaintexts == {Encoded(scheme, l, v) : l \in Levels, v \in Inputs(scheme)}
KeyCounts == 1..MaxKeys
SlotLists == UNION {[1..n -> Slots] : n \in 0..MaxList}
CtList(l) == [i \in 1..Len(l) |-> ct[l[i]]]

Encrypt ==
    \E d \in Slots, v \in Inputs(scheme) :
        Call("encrypt", NoArg, NoArg, <<>>, 0, 0, d, EOk(Encrypted(scheme, v)))

Negate ==
    \E s \in Slots :
        Call("negate", ct[s], NoArg, <<>>, 0, 0, ResultSlot, negate(ct[s]))
NegateInplace ==
    \E s \in Slots :
        Call("negate_inplace", ct[s], NoArg, <<>>, 0, 0, s, negate_inplace(ct[s]))

Add ==
    \E s \in Slots, t \in Slots :
        Call("add", ct[s], ct[t], <<>>, 0, 0, ResultSlot, add(ct[s], ct[t]))
AddInplace ==
    \E s \in Slots, t \in Slots :
        Call("add_inplace", ct[s], ct[t], <<>>, 0, 0, s, add_inplace(ct[s], ct[t]))

AddMany ==
    \E l \in SlotLists :
        Call("add_many", NoArg, NoArg, CtList(l), 0, 0, ResultSlot, add_many(CtList(l)))

Sub ==
    \E s \in Slots, t \in Slots :
        Call("sub", ct[s], ct[t], <<>>, 0, 0, ResultSlot, sub(ct[s], ct[t]))
SubInplace ==
    \E s \in Slots, t \in Slots :
        Call("sub_inplace", ct[s], ct[t], <<>>, 0, 0, s, sub_inplace(ct[s], ct[t]))

Multiply ==
    \E s \in Slots, t \in Slots :
        Call("multiply", ct[s], ct[t], <<>>, 0, 0, ResultSlot, multiply(ct[s], ct[t]))
MultiplyInplace ==
    \E s \in Slots, t \in Slots :
        Call("multiply_inplace", ct[s], ct[t], <<>>, 0, 0, s, multiply_inplace(ct[s], ct[t]))

Square ==
    \E s \in Slots :
        Call("square", ct[s], NoArg, <<>>, 0, 0, ResultSlot, square(ct[s]))
SquareInplace ==
    \E s \in Slots :
        Call("square_inplace", ct[s], NoArg, <<>>, 0, 0, s, square_inplace(ct[s]))

ModSwitchToNext ==
    \E s \in Slots :
        Call("mod_switch_to_next", ct[s], NoArg, <<>>, 0, 0, ResultSlot, mod_switch_to_next(ct[s]))
ModSwitchToNextInplace ==
    \E s \in Slots :
        Call("mod_switch_to_next_inplace", ct[s], NoArg, <<>>, 0, 0, s,
             mod_switch_to_next_inplace(ct[s]))
ModSwitchToNextPlaintext ==
    \E p \in Plaintexts :
        Call("mod_switch_to_next_plaintext", p, NoArg, <<>>, 0, 0, "none",
             mod_switch_to_next_plaintext(p))
ModSwitchToNextInplacePlaintext ==
    \E p \in Plaintexts :
        Call("mod_switch_to_next_inplace_plaintext", p, NoArg, <<>>, 0, 0, "none",
             mod_switch_to_next_inplace_plaintext(p))

AddPlain ==
    \E s \in Slots, p \in Plaintexts :
        Call("add_plain", ct[s], p, <<>>, 0, 0, ResultSlot, add_plain(ct[s], p))
AddPlainInplace ==
    \E s \in Slots, p \in Plaintexts :
        Call("add_plain_inplace", ct[s], p, <<>>, 0, 0, s, add_plain_inplace(ct[s], p))
SubPlain ==
    \E s \in Slots, p \in Plaintexts :
        Call("sub_plain", ct[s], p, <<>>, 0, 0, ResultSlot, sub_plain(ct[s], p))
SubPlainInplace ==
    \E s \in Slots, p \in Plaintexts :
        Call("sub_plain_inplace", ct[s], p, <<>>, 0, 0, s, sub_plain_inplace(ct[s], p))
MultiplyPlain ==
    \E s \in Slots, p \in Plaintexts :
        Call("multiply_plain", ct[s], p, <<>>, 0, 0, ResultSlot, multiply_plain(ct[s], p))
MultiplyPlainInplace ==
    \E s \in Slots, p \in Plaintexts :
        Call("multiply_plain_inplace", ct[s], p, <<>>, 0, 0, s, multiply_plain_inplace(ct[s], p))

RelinearizeInplace ==
    \E s \in Slots, k \in KeyCounts :
        Call("relinearize_inplace", ct[s], NoArg, <<>>, k, 0, s, relinearize_inplace(ct[s], k))
Relinearize ==
    \E s \in Slots, k \in KeyCounts :
        Call("relinearize", ct[s], NoArg, <<>>, k, 0, ResultSlot, relinearize(ct[s], k))

RescaleToNextInplace ==
    \E s \in Slots :
        Call("rescale_to_next_inplace", ct[s], NoArg, <<>>, 0, 0, s,
             rescale_to_next_inplace(scheme, ct[s]))
RescaleToNext ==
    \E s \in Slots :
        Call("rescale_to_next", ct[s], NoArg, <<>>, 0, 0, ResultSlot, rescale_to_next(scheme, ct[s]))

ModSwitchToInplace ==
    \E s \in Slots, t \in Levels :
        Call("mod_switch_to_inplace", ct[s], NoArg, <<>>, 0, t, s, mod_switch_to_inplace(ct[s], t))
ModSwitchToInplacePlaintext ==
    \E p \in Plaintexts, t \in Levels :
        Call("mod_switch_to_inplace_plaintext", p, NoArg, <<>>, 0, t, "none",
             mod_switch_to_inplace_plaintext(p, t))

FactorLists == UNION {[1..n -> Slots] : n \in 0..MaxFactors}
Exponents == 0..MaxExponent

MultiplyMany ==
    \E l \in FactorLists, k \in KeyCounts :
        Call("multiply_many", NoArg, NoArg, CtList(l), k, 0, ResultSlot,
             multiply_many(CtList(l), k))

Exponentiate ==
    \E s \in Slots, e \in Exponents, k \in KeyCounts :
        Call("exponentiate", ct[s], NoArg, <<>>, k, e, ResultSlot, exponentiate(ct[s], e, k))
ExponentiateInplace ==
    \E s \in Slots, e \in Exponents, k \in KeyCounts :
        Call("exponentiate_inplace", ct[s], NoArg, <<>>, k, e, s,
             exponentiate_inplace(ct[s], e, k))

\* make_matrix of the tests: 1, -2 at the head of row 0 and -1, 2 at the head
\* of row 1, zero elsewhere.
make_matrix ==
    [k \in MatrixSlots |->
        IF k = SlotAt(0, 0) THEN 1
        ELSE IF k = SlotAt(0, 1) THEN -2
        ELSE IF k = SlotAt(1, 0) THEN -1
        ELSE IF k = SlotAt(1, 1) THEN 2
        ELSE 0]
\* A matrix whose slots all differ.
counting_matrix == [k \in MatrixSlots |-> k]
Matrices == {make_matrix, counting_matrix}
StepCounts == (-(RowLen + 1))..(RowLen + 1)

EncryptMatrix ==
    \E d \in Slots, m \in Matrices :
        Call("encrypt", NoArg, NoArg, <<>>, 0, 0, d, EOk(Encrypted(scheme, m)))

RotateRows ==
    \E s \in Slots, n \in StepCounts :
        Call("rotate_rows", ct[s], NoArg, <<>>, 0, n, ResultSlot, rotate_rows(ct[s], n))
RotateRowsInplace ==
    \E s \in Slots, n \in StepCounts :
        Call("rotate_rows_inplace", ct[s], NoArg, <<>>, 0, n, s, rotate_rows_inplace(ct[s], n))
RotateColumns ==
    \E s \in Slots :
        Call("rotate_columns", ct[s], NoArg, <<>>, 0, 0, ResultSlot, rotate_columns(ct[s]))
RotateColumnsInplace ==
    \E s \in Slots :
        Call("rotate_columns_inplace", ct[s], NoArg, <<>>, 0, 0, s, rotate_columns_inplace(ct[s]))

\* sign_inplace mutates a in place, also when a later step fails; the steps it
\* ran are recorded as the call's args.
SignInplace ==
    \E s \in Slots, k \in KeyCounts :
        LET r == sign_inplace(ct[s], scheme, k)
        IN  /\ Bounded(ct[s])
            /\ last' = Record("sign_inplace", ct[s], NoArg, r.trace, k, 0, s, r)
            /\ ct' = [ct EXCEPT ![s] = r.out]
            /\ UNCHANGED <<scheme, calls>>

\* x.set_scale(2^40), as the polynomial example does before its add.
SetScale ==
    \E s \in Slots :
        Call("set_scale", ct[s], NoArg, <<>>, 0, 0, s, set_scale(ct[s], EncScale(scheme)))

\* The polynomial evaluation of the example, on a ciphertext of the caller;
\* the statements it ran are recorded as the call's args.
Polynomial ==
    \E s \in Slots, k \in KeyCounts :
        LET r == polynomial(ct[s], k)
        IN  /\ Bounded(r.out)
            /\ last' = Record("polynomial", ct[s], NoArg, r.trace, k, 0, ResultSlot, r)
            /\ ct' = IF r.status = "Ok" THEN [ct EXCEPT ![ResultSlot] = r.out] ELSE ct
            /\ UNCHANGED <<scheme, calls>>

(* --------------------------- concurrent callers ------------------------- *)

\* Threads that hold a reference to the same evaluator and ciphertexts (all
\* types are Sync/Send).
Callers == {"t1", "t2"}

\* In-place operations by the receiver the trait declares for the ciphertext
\* they mutate: `a: &mut Ciphertext` and `a: &Ciphertext`.
MutReceiver ==
    {"negate_inplace", "add_inplace", "sub_inplace", "multiply_inplace", "square_inplace",
     "add_plain_inplace", "sub_plain_inplace", "multiply_plain_inplace", "relinearize_inplace"}
RefReceiver ==
    {"mod_switch_to_next_inplace", "exponentiate_inplace", "rotate_rows_inplace",
     "rotate_columns_inplace", "rescale_to_next_inplace"}

\* `alone` notes whether the call has had the ciphertext to itself so far.
Idle == [op |-> "idle", slot |-> "none", seen |-> NoArg, alone |-> TRUE]
Running(c) == calls[c].op # "idle"

\* What the borrow rules let a caller enter: a `&mut` needs the ciphertext to
\* itself, a `&` only needs that nobody holds it as `&mut`.
CanBorrow(c, op, s) ==
    \A d \in Callers \ {c} :
        (Running(d) /\ calls[d].slot = s)
        => (op \in RefReceiver /\ calls[d].op \in RefReceiver)

\* A caller enters an in-place call on ct[s]; the engine reads the operand.
Begin(c, op, s) ==
    /\ ~Running(c)
    /\ CanBorrow(c, op, s)
    /\ calls' = [d \in Callers |->
                    IF d = c
                    THEN [op |-> op, slot |-> s, seen |-> ct[s],
                          alone |-> \A e \in Callers \ {c} :
                                        ~(Running(e) /\ calls[e].slot = s)]
                    ELSE IF Running(d) /\ calls[d].slot = s
                         THEN [calls[d] EXCEPT !.alone = FALSE]
                         ELSE calls[d]]
    /\ UNCHANGED <<scheme, ct, last>>

BeginNegateInplace ==
    \E c \in Callers, s \in Slots : Begin(c, "negate_inplace", s)
BeginSquareInplace ==
    \E c \in Callers, s \in Slots : Begin(c, "square_inplace", s)
BeginModSwitchToNextInplace ==
    \E c \in Callers, s \in Slots : Begin(c, "mod_switch_to_next_inplace", s)
BeginRescaleToNextInplace ==
    \E c \in Callers, s \in Slots : Begin(c, "rescale_to_next_inplace", s)

Apply(call, a) ==
    CASE call.op = "negate_inplace" -> negate_inplace(a)
      [] call.op = "square_inplace" -> square_inplace(a)
      [] call.op = "mod_switch_to_next_inplace" -> mod_switch_to_next_inplace(a)
      [] call.op = "rescale_to_next_inplace" -> rescale_to_next_inplace(scheme, a)

\* A native engine that kept its working copy of the operand in storage shared
\* by all calls: the result may be built on any ciphertext.
Return_shared_scratch ==
    \E c \in Callers :
        /\ Running(c)
        /\ \E a \in {ct[s] : s \in Slots} :
              LET r == Apply(calls[c], a)
              IN  /\ Bounded(r.out)
                  /\ ct' = IF r.status = "Ok" THEN [ct EXCEPT ![calls[c].slot] = r.out] ELSE ct
        /\ calls' = [calls EXCEPT ![c] = Idle]
        /\ UNCHANGED <<scheme, last>>

\* The call returns and its result is in the ciphertext.  When another call
\* has written the same ciphertext in between, the two native mutations race:
\* the result is built on the operand as read at entry or as it is now.
Return ==
    \E c \in Callers :
        /\ Running(c)
        /\ \E a \in {calls[c].seen, ct[calls[c].slot]} :
              LET r == Apply(calls[c], a)
              IN  /\ Bounded(r.out)
                  /\ ct' = IF r.status = "Ok" THEN [ct EXCEPT ![calls[c].slot] = r.out] ELSE ct
        /\ calls' = [calls EXCEPT ![c] = Idle]
        /\ UNCHANGED <<scheme, last>>

Init ==
    /\ scheme \in Schemes
    /\ ct \in [Slots -> {Encrypted(scheme, v) : v \in Inputs(scheme)}]
    /\ last = Record("init", NoArg, NoArg, <<>>, 0, 0, "none", EOk(NoArg))
    /\ calls = [c \in Callers |-> Idle]

Next ==
    \/ Encrypt
    \/ Negate
    \/ NegateInplace
    \/ Add
    \/ AddInplace
    \/ AddMany
    \/ Sub
    \/ SubInplace
    \/ Multiply
    \/ MultiplyInplace
    \/ Square
    \/ SquareInplace
    \/ ModSwitchToNext
    \/ ModSwitchToNextInplace
    \/ ModSwitchToNextPlaintext
    \/ ModSwitchToNextInplacePlaintext
    \/ AddPlain
    \/ AddPlainInplace
    \/ SubPlain
    \/ SubPlainInplace
    \/ MultiplyPlain
    \/ MultiplyPlainInplace
    \/ RelinearizeInplace
    \/ Relinearize
    \/ RescaleToNextInplace
    \/ RescaleToNext
    \/ ModSwitchToInplace
    \/ ModSwitchToInplacePlaintext

Spec == Init /\ [][Next]_vars

\* The reductions, over ciphertexts of several sizes and levels.
NextReduce ==
    \/ Encrypt
    \/ Multiply
    \/ ModSwitchToNextInplace
    \/ MultiplyMany
    \/ Exponentiate
    \/ ExponentiateInplace

SpecReduce == Init /\ [][NextReduce]_vars

\* The rotations, on batched matrices under the exact-integer scheme.
InitRotate ==
    /\ scheme = "BFV"
    /\ ct \in [Slots -> {Encrypted("BFV", m) : m \in Matrices}]
    /\ last = Record("init", NoArg, NoArg, <<>>, 0, 0, "none", EOk(NoArg))
    /\ calls = [c \in Callers |-> Idle]

NextRotate ==
    \/ EncryptMatrix
    \/ RotateRows
    \/ RotateRowsInplace
    \/ RotateColumns
    \/ RotateColumnsInplace

SpecRotate == InitRotate /\ [][NextRotate]_vars

\* Two callers issuing in-place operations on shared ciphertexts.
NextShared ==
    \/ BeginNegateInplace
    \/ BeginSquareInplace
    \/ BeginModSwitchToNextInplace
    \/ BeginRescaleToNextInplace
    \/ Return

SpecShared == Init /\ [][NextShared]_vars

\* The sign approximation, under the approximate scheme it is written for.
InitSign == Init /\ scheme = "CKKS"

NextSign ==
    \/ Encrypt
    \/ MultiplyInplace
    \/ ModSwitchToNextInplace
    \/ RescaleToNextInplace
    \/ SignInplace

SpecSign == InitSign /\ [][NextSign]_vars

\* The sign approximation under either scheme, on ciphertexts of every size.
NextSignSteps ==
    \/ Encrypt
    \/ MultiplyInplace
    \/ ModSwitchToNextInplace
    \/ SetScale
    \/ SignInplace

SpecSignSteps == Init /\ [][NextSignSteps]_vars

\* The polynomial evaluation, on fresh and on already processed ciphertexts.
NextPolynomial ==
    \/ Encrypt
    \/ MultiplyInplace
    \/ RelinearizeInplace
    \/ ModSwitchToNextInplace
    \/ RescaleToNextInplace
    \/ Polynomial

SpecPolynomial == InitSign /\ [][NextPolynomial]_vars

\* The in-place operations: arithmetic on single values under the approximate
\* scheme, rotations on batched matrices under the exact-integer scheme.
InitInplace == InitSign \/ InitRotate

NextInplace ==
    \/ (scheme = "CKKS" /\ Encrypt)
    \/ (scheme = "CKKS" /\ AddInplace)
    \/ (scheme = "CKKS" /\ SubInplace)
    \/ (scheme = "CKKS" /\ MultiplyInplace)
    \/ (scheme = "CKKS" /\ SquareInplace)
    \/ (scheme = "CKKS" /\ RelinearizeInplace)
    \/ (scheme = "CKKS" /\ RescaleToNextInplace)
    \/ (scheme = "CKKS" /\ ModSwitchToNextInplace)
    \/ (scheme = "CKKS" /\ ExponentiateInplace)
    \/ (scheme = "BFV" /\ EncryptMatrix)
    \/ (scheme = "BFV" /\ RotateRowsInplace)
    \/ (scheme = "BFV" /\ RotateColumnsInplace)

SpecInplace == InitInplace /\ [][NextInplace]_vars

(* ------------------------------- claims --------------------------------- *)

NegateOps == {"negate", "negate_inplace"}
AddSubOps == {"add", "add_inplace", "sub", "sub_inplace"}
MultiplyOps == {"multiply", "multiply_inplace"}
SquareOps == {"square", "square_inplace"}
AddSubPlainOps == {"add_plain", "add_plain_inplace", "sub_plain", "sub_plain_inplace"}
MultiplyPlainOps == {"multiply_plain", "multiply_plain_inplace"}
RelinearizeOps == {"relinearize", "relinearize_inplace"}
RescaleOps == {"rescale_to_next", "rescale_to_next_inplace"}
ModSwitchToNextOps ==
    {"mod_switch_to_next", "mod_switch_to_next_inplace",
     "mod_switch_to_next_plaintext", "mod_switch_to_next_inplace_plaintext"}
ModSwitchToOps == {"mod_switch_to_inplace", "mod_switch_to_inplace_plaintext"}

Succeeded == last.status = "Ok"
\* A successful call has written its result to its destination.
Stored == last.dst \in Slots => ct[last.dst] = last.out
\* o = a * b and o = a / q on rationals, by cross-multiplication.
IsProduct(o, a, b) == o[1] * a[2] * b[2] = a[1] * b[1] * o[2]
IsQuotient(o, a, q) == o[1] * a[2] * q = a[1] * o[2]

\* C1: a binary operation (add, sub, multiply, in place or not, and the
\* plaintext variants) whose two operands carry different level ids fails with
\* LevelMismatch and returns no result.
Thm_C1 ==
    (/\ last.op \in AddSubOps \cup MultiplyOps \cup AddSubPlainOps \cup MultiplyPlainOps
     /\ last.b.level # 0
     /\ last.a.level # last.b.level)
    => (last.status = "LevelMismatch" /\ last.out = Ciphertext_new)

\* C1 witness: a ciphertext rescaled once is added to a fresh one; the call failed.
Wit_C1 ==
    /\ last.op = "add"
    /\ last.b = Encrypted("CKKS", 0)
    /\ last.a.level = NumLevels - 1
    /\ IsQuotient(last.a.scale, EncScale("CKKS"), Modulus(NumLevels))
    /\ last.status = "LevelMismatch"

\* C2: multiply of two ciphertexts at the same level succeeds; the result has
\* size(a) + size(b) - 1 components, scale(a) * scale(b), and the operands' level.
Thm_C2 ==
    (last.op \in MultiplyOps /\ last.a.level = last.b.level)
    => (/\ Succeeded
        /\ last.out.size = last.a.size + last.b.size - 1
        /\ IsProduct(last.out.scale, last.a.scale, last.b.scale)
        /\ last.out.level = last.a.level
        /\ Stored)

\* C2 witness: two size-2 operands gave a size-3 product.
Wit_C2 ==
    /\ last.op = "multiply_inplace"
    /\ Succeeded
    /\ last.a.size = 2 /\ last.b.size = 2
    /\ ct[last.dst].size = 3
    /\ scheme = "CKKS" /\ ct[last.dst].scale = <<4, 1>>

Thm_C4 ==
    (last.op \in RelinearizeOps /\ Succeeded)
    => (/\ last.a.size >= 2
        /\ last.out = [last.a EXCEPT !.size = 2]
        /\ Stored)

\* C4 witness: a ciphertext of the largest size was relinearized in place.
Wit_C4 ==
    /\ last.op = "relinearize_inplace"
    /\ Succeeded
    /\ last.a.size = MaxSize
    /\ ct[last.dst].size = 2

\* multiply, relinearize, multiply, relinearize with one key on size-2 operands.
MulRelinTwice(a, b) ==
    LET m1 == multiply(a, b)
        r1 == relinearize(m1.out, 1)
        m2 == multiply(r1.out, b)
        r2 == relinearize(m2.out, 1)
    IN  <<m1, r1, m2, r2>>

\* C5: relinearize fails with InsufficientKeyMaterial exactly when the operand
\* of size K+1 meets fewer than K-1 keys (so with one key, for every size > 3);
\* multiply, relinearize, multiply, relinearize with one key succeeds throughout.
Thm_C5 ==
    /\ last.op \in RelinearizeOps
       => /\ last.status \in {"Ok", "InsufficientKeyMaterial"}
          /\ last.status = "InsufficientKeyMaterial" <=> last.keys < last.a.size - 2
    /\ \A s \in Slots, t \in Slots :
          (ct[s].size = 2 /\ ct[t].size = 2 /\ ct[s].level = ct[t].level)
          => \A i \in 1..4 : MulRelinTwice(ct[s], ct[t])[i].status = "Ok"

\* C5 witness: one key, a ciphertext of size 4 (two multiplications, no
\* relinearization in between), and the call failed.
Wit_C5 ==
    /\ last.op = "relinearize"
    /\ last.keys = 1
    /\ last.a.size = 4
    /\ last.status = "InsufficientKeyMaterial"

\* C6: under the scale-tracking scheme, rescale_to_next of a ciphertext above
\* the bottom level moves it down exactly one level, divides its scale by the
\* modulus dropped and keeps its size.
Thm_C6 ==
    (last.op \in RescaleOps /\ scheme = "CKKS" /\ last.a.level > 1)
    => (/\ Succeeded
        /\ last.out.level = last.a.level - 1
        /\ IsQuotient(last.out.scale, last.a.scale, Modulus(last.a.level))
        /\ last.out.size = last.a.size
        /\ Stored)

\* C6 witness: x^2 at the top level, scale 4, was rescaled in place.
Wit_C6 ==
    /\ last.op = "rescale_to_next_inplace"
    /\ Succeeded
    /\ last.a.level = NumLevels /\ last.a.scale = <<4, 1>>
    /\ ct[last.dst].level = NumLevels - 1
    /\ ct[last.dst].scale = <<4, NumLevels>>

\* C7: rescale_to_next and mod_switch_to_next on a value at the bottom level
\* fail with ChainExhausted, and no ciphertext ever sits below the bottom level.
Thm_C7 ==
    /\ (last.op \in RescaleOps \cup ModSwitchToNextOps /\ last.a.level = 1)
       => (last.status = "ChainExhausted" /\ last.out = Ciphertext_new)
    /\ \A s \in Slots : ct[s].level \in Levels

\* C7 witness: a rescale was refused at the bottom level.
Wit_C7 ==
    /\ last.op = "rescale_to_next_inplace"
    /\ scheme = "CKKS"
    /\ last.a.level = 1
    /\ last.status = "ChainExhausted"
    /\ ct["x"].level = 1

\* C8, as claimed: a mod-switch moves the value to a lower level with scale and
\* size unchanged, and mod-switch-to fails with InvalidLevelTarget whenever the
\* target is not strictly below the current level, the current level included.
Orig_C8 ==
    /\ (last.op \in ModSwitchToNextOps \cup ModSwitchToOps /\ Succeeded)
       => (/\ last.out.level < last.a.level
           /\ last.out.scale = last.a.scale
           /\ last.out.size = last.a.size)
    /\ (last.op \in ModSwitchToOps /\ last.a.level # 0 /\ last.target >= last.a.level)
       => last.status = "InvalidLevelTarget"

\* C8, amended: mod-switch-to-next moves the value one level down, mod-switch-to
\* moves it to the target; scale and size (and value) are unchanged.
\* mod-switch-to fails with InvalidLevelTarget exactly when the target is above
\* the current level; a target equal to the current level succeeds and leaves
\* the value as it was.
Thm_C8 ==
    /\ (last.op \in ModSwitchToNextOps /\ Succeeded)
       => (last.out = [last.a EXCEPT !.level = last.a.level - 1] /\ Stored)
    /\ (last.op \in ModSwitchToOps /\ Succeeded)
       => (/\ last.out = [last.a EXCEPT !.level = last.target]
           /\ last.target <= last.a.level
           /\ Stored)
    /\ (last.op \in ModSwitchToOps /\ last.a.level # 0)
       => (last.status = "InvalidLevelTarget" <=> last.target > last.a.level)
    /\ (last.op \in ModSwitchToOps /\ last.target = last.a.level)
       => (Succeeded /\ last.out = last.a)

\* C8 witness: a ciphertext that two rescales had brought to the last level was
\* switched to the last level, as in examples/polynomial.rs, and came back as it was.
Wit_C8 ==
    /\ last.op = "mod_switch_to_inplace"
    /\ Succeeded
    /\ scheme = "CKKS"
    /\ last.a.level = 1 /\ last.target = 1
    /\ last.a.scale # EncScale("CKKS")
    /\ ct[last.dst] = last.a

\* C9: square(a) and multiply(a, a) give the same result: size 2*size(a) - 1,
\* scale(a)^2, the level of a, the same value.
Thm_C9 ==
    /\ \A s \in Slots :
          /\ square(ct[s]) = multiply(ct[s], ct[s])
          /\ square_inplace(ct[s]) = multiply_inplace(ct[s], ct[s])
    /\ (last.op \in SquareOps)
       => (/\ Succeeded
           /\ last.out.size = 2 * last.a.size - 1
           /\ IsProduct(last.out.scale, last.a.scale, last.a.scale)
           /\ last.out.level = last.a.level
           /\ last.out.val = (last.a.val * last.a.val) % PlainModulus
           /\ last.out = multiply(last.a, last.a).out
           /\ Stored)

\* C9 witness: a value that is not its own square was squared.
Wit_C9 ==
    /\ last.op = "square"
    /\ Succeeded
    /\ last.a.size = 2 /\ last.a.val = 2
    /\ ct[last.dst].size = 3 /\ ct[last.dst].val = 1

\* add folded over a list from left to right.
RECURSIVE FoldAddFrom(_, _)
FoldAddFrom(acc, l) ==
    IF acc.status # "Ok" \/ l = <<>> THEN acc
    ELSE FoldAddFrom(add(acc.out, Head(l)), Tail(l))
FoldAdd(l) == FoldAddFrom(EOk(Head(l)), Tail(l))

Uniform(l) == \A i \in 1..Len(l) : l[i].level = l[1].level /\ l[i].scale = l[1].scale
Bijections(n) == {f \in [1..n -> 1..n] : \A i \in 1..n : \E j \in 1..n : f[j] = i}
Reordered(l, f) == [i \in 1..Len(l) |-> l[f[i]]]

ExponentiateOps == {"exponentiate", "exponentiate_inplace"}

RECURSIVE CeilLog2(_)
CeilLog2(n) == IF n <= 1 THEN 0 ELSE 1 + CeilLog2((n + 1) \div 2)

RECURSIVE ProdVal(_)
ProdVal(l) == IF l = <<>> THEN 1 ELSE (Head(l).val * ProdVal(Tail(l))) % PlainModulus

RECURSIVE PowVal(_, _)
PowVal(v, e) == IF e = 0 THEN 1 ELSE (v * PowVal(v, e - 1)) % PlainModulus

\* Every multiplication in a log of engine steps is followed by a relinearization.
RelinearizedThroughout(log) ==
    /\ Len(log) % 2 = 0
    /\ \A i \in 1..Len(log) :
          log[i] = (IF i % 2 = 1 THEN "multiply" ELSE "relinearize")

AllSize2(l) == \A i \in 1..Len(l) : l[i].size = 2
OneLevel(l) == \A i \in 1..Len(l) : l[i].level = l[1].level

RECURSIVE PairwiseFrom(_, _, _)
PairwiseFrom(q, keys, prods) ==
    IF Len(q) <= 1 THEN prods
    ELSE LET m == multiply(q[1], q[2])
             r == relinearize(m.out, keys)
         IN  IF m.status # "Ok" THEN prods
             ELSE IF r.status # "Ok" THEN Append(prods, m.out)
             ELSE PairwiseFrom(SubSeq(q, 3, Len(q)) \o <<r.out>>, keys, Append(prods, m.out))
PairwiseProducts(l, keys) == PairwiseFrom(l, keys, <<>>)

\* C12: multiply_many of an empty list fails; it fails with
\* InsufficientKeyMaterial exactly when relinearize with the same keys fails on
\* one of its pairwise products; a failed call returns no ciphertext.
Thm_C12 ==
    (last.op = "multiply_many")
    => LET prods == PairwiseProducts(last.args, last.keys)
       IN  /\ last.args = <<>> => ~Succeeded
           /\ last.status = "InsufficientKeyMaterial"
              <=> \E i \in 1..Len(prods) :
                     relinearize(prods[i], last.keys).status = "InsufficientKeyMaterial"
           /\ ~Succeeded => last.out = Ciphertext_new

\* C12 witness: one key, factors of size 2 and 3: their product has size 4.
Wit_C12 ==
    /\ last.op = "multiply_many"
    /\ last.keys = 1
    /\ Len(last.args) = 2
    /\ last.args[1].size = 2 /\ last.args[2].size = 3
    /\ last.args[1].level = last.args[2].level
    /\ last.status = "InsufficientKeyMaterial"

RECURSIVE FloorLog2(_)
FloorLog2(n) == IF n <= 1 THEN 0 ELSE 1 + FloorLog2(n \div 2)

\* Number of multiplications in a log of engine steps.
Multiplications(log) == Cardinality({i \in 1..Len(log) : log[i] = "multiply"})

\* C24: exponentiate and exponentiate_inplace with an exponent e >= 1 perform
\* at most 2 * floor(log2 e) ciphertext multiplications, whether they succeed
\* or stop at a failing step, and a successful call returns the ciphertext the
\* schedule ends with, of multiplicative depth ceil(log2 e).
Thm_C24 ==
    (last.op \in ExponentiateOps /\ last.target >= 1)
    => LET run == ExponentiateRun(last.a, last.target, last.keys)
       IN  /\ Multiplications(run.log) <= 2 * FloorLog2(last.target)
           /\ last.status = run.status
           /\ Succeeded => /\ last.out = run.out
                           /\ run.depth = CeilLog2(last.target)

\* C24 witness: a ciphertext was raised to the power 6, where repeated
\* multiplication takes 5 multiplications: the call succeeded with 3, at depth 3.
Wit_C24 ==
    /\ last.op = "exponentiate"
    /\ last.target = 6
    /\ Succeeded
    /\ Multiplications(ExponentiateRun(last.a, last.target, last.keys).log) = 3
    /\ ExponentiateRun(last.a, last.target, last.keys).depth = 3
    /\ last.target - 1 > 2 * FloorLog2(last.target)
    /\ ct[last.dst] = last.out

\* C13: exponentiate and exponentiate_inplace with exponent 0 fail for every
\* ciphertext and return none.
Thm_C13 ==
    (last.op \in ExponentiateOps /\ last.target = 0)
    => (~Succeeded /\ last.out = Ciphertext_new)

\* C13 witness: a fresh ciphertext was raised in place to the power 0; the call
\* failed and the ciphertext is as it was.
Wit_C13 ==
    /\ last.op = "exponentiate_inplace"
    /\ last.target = 0
    /\ last.a.size = 2
    /\ ~Succeeded
    /\ ct[last.dst] = last.a

RECURSIVE StagesWithRescale(_)
StagesWithRescale(stages) ==
    IF stages = <<>> THEN <<>>
    ELSE <<Step("multiply_plain_inplace", Head(stages)),
           Step("relinearize_inplace", ""),
           Step("rescale_to_next_inplace", "")>> \o StagesWithRescale(Tail(stages))

\* The scale after every stage multiplied by the coefficient scale and none
\* divided it back.
RECURSIVE ScaleUnrescaled(_, _)
ScaleUnrescaled(sc, n) ==
    IF n = 0 THEN sc ELSE ScaleUnrescaled(RMul(sc, EncScale("CKKS")), n - 1)

\* C15, as claimed: a successful sign_inplace ran its four stages (degree 3,
\* degree 7, degree 15 twice) in that order, each as multiply_plain, relinearize,
\* rescale_to_next; the level has advanced one step per stage and the scale has
\* not been multiplied by the coefficient scale at every stage.
Orig_C15 ==
    (last.op = "sign_inplace" /\ Succeeded)
    => (/\ last.args = StagesWithRescale(SignStages)
        /\ last.out.level = last.a.level - Len(SignStages)
        /\ last.out.scale # ScaleUnrescaled(last.a.scale, Len(SignStages)))

\* C16: sign_inplace on a freshly encrypted ciphertext (top level, size 2,
\* encoding scale) with a single relinearization key returns success: all its
\* steps ran, none failed with LevelMismatch, and the ciphertext is still at the
\* level the coefficient plaintexts are encoded at.
Thm_C16 ==
    (/\ last.op = "sign_inplace"
     /\ last.a = Encrypted("CKKS", 0)
     /\ last.keys = 1)
    => (/\ Succeeded
        /\ Len(last.args) = 2 * Len(SignStages)
        /\ last.out.level = EncodedCoeffs("COEFFS_N3").level
        /\ last.out.size = 2
        /\ ct[last.dst] = last.out)

\* C16 witness: a fresh ciphertext went through sign_inplace with one key, and
\* the last step it ran was the relinearization of the second degree-15 stage.
Wit_C16 ==
    /\ last.op = "sign_inplace"
    /\ last.a = Encrypted("CKKS", 0)
    /\ last.keys = 1
    /\ Succeeded
    /\ last.args[7] = Step("multiply_plain_inplace", "COEFFS_N15")
    /\ last.args[8] = Step("relinearize_inplace", "")
    /\ ct[last.dst].level = NumLevels

\* The steps of sign_inplace in program order: the evaluator, the encoder,
\* the three encodings, then multiply_plain and relinearize for every stage.
RECURSIVE StageSteps(_)
StageSteps(stages) ==
    IF stages = <<>> THEN <<>>
    ELSE <<Step("multiply_plain_inplace", Head(stages)), Step("relinearize_inplace", "")>>
         \o StageSteps(Tail(stages))

SignPlan ==
    <<Step("Evaluator::new", ""), Step("CKKSEncoder::new", ""),
      Step("encode_f64", "COEFFS_N3"), Step("encode_f64", "COEFFS_N7"),
      Step("encode_f64", "COEFFS_N15")>> \o StageSteps(SignStages)

\* One step by itself: its status and the ciphertext it leaves.
StepAlone(st, a, ctx, keys) ==
    CASE st.op = "Evaluator::new" -> [status |-> Evaluator_new(ctx).status, out |-> a]
      [] st.op = "CKKSEncoder::new"
            -> [status |-> CKKSEncoder_new(ctx, EncScale("CKKS")).status, out |-> a]
      [] st.op = "encode_f64" -> [status |-> encode_f64(st.arg).status, out |-> a]
      [] st.op = "multiply_plain_inplace"
            -> multiply_plain_inplace(a, EncodedCoeffs(st.arg))
      [] st.op = "relinearize_inplace" -> relinearize_inplace(a, keys)

\* The first step of the plan from the i-th on that fails (`ran` counts the
\* steps up to it), with its error and the ciphertext the steps before it left.
RECURSIVE FirstFailure(_, _, _, _)
FirstFailure(i, a, ctx, keys) ==
    IF i > Len(SignPlan) THEN [status |-> "Ok", ran |-> Len(SignPlan), out |-> a]
    ELSE LET r == StepAlone(SignPlan[i], a, ctx, keys)
         IN  IF r.status # "Ok" THEN [status |-> r.status, ran |-> i, out |-> a]
             ELSE FirstFailure(i + 1, r.out, ctx, keys)

RotateRowsOps == {"rotate_rows", "rotate_rows_inplace"}
RotateColumnsOps == {"rotate_columns", "rotate_columns_inplace"}

IsLastOfRow(k) == k % RowLen = 0

\* Every row moved one column to the right, its last element to its first column.
ShiftRight(v) ==
    [k \in MatrixSlots |-> IF ColOf(k) = 0 THEN v[k + RowLen - 1] ELSE v[k - 1]]
\* Every row moved one column to the left, its first element to its last column.
ShiftLeft(v) ==
    [k \in MatrixSlots |-> IF IsLastOfRow(k) THEN v[k - RowLen + 1] ELSE v[k + 1]]

RECURSIVE Shifted(_, _)
Shifted(v, steps) ==
    IF steps = 0 THEN v
    ELSE IF steps > 0 THEN Shifted(ShiftLeft(v), steps - 1)
    ELSE Shifted(ShiftRight(v), steps + 1)

\* C17: rotate_rows (and rotate_rows_inplace) succeeds for every step count of
\* absolute value at most N/2 - 1 and fails with InvalidRotationStep, returning
\* no ciphertext, for every step count of absolute value N/2 or more.
Thm_C17 ==
    (last.op \in RotateRowsOps)
    => /\ (last.target <= RowLen - 1 /\ -last.target <= RowLen - 1)
          => (Succeeded /\ Stored)
       /\ (last.target >= RowLen \/ -last.target >= RowLen)
          => (last.status = "InvalidRotationStep" /\ last.out = Ciphertext_new)

\* C17 witness: a rotation by exactly N/2 steps to the right was refused.
Wit_C17 ==
    /\ last.op = "rotate_rows"
    /\ last.target = -RowLen
    /\ last.a.val = make_matrix
    /\ last.status = "InvalidRotationStep"

\* C18: a successful rotate_rows by steps moves every row, on its own, steps
\* columns to the left (steps > 0) or -steps columns to the right (steps < 0),
\* cyclically; for steps = -1, c[i+1] = a[i] for every slot i that is not the
\* last of its row, and the last element of each row is the first of that row in c.
Thm_C18 ==
    (last.op \in RotateRowsOps /\ Succeeded)
    => /\ last.out.val = Shifted(last.a.val, last.target)
       /\ last.target = -1
          => \A i \in MatrixSlots :
                IF IsLastOfRow(i) THEN last.out.val[i - RowLen + 1] = last.a.val[i]
                ELSE last.out.val[i + 1] = last.a.val[i]
       /\ [last.out EXCEPT !.val = 0] = [last.a EXCEPT !.val = 0]
       /\ Stored

\* C18 witness: make_matrix was rotated in place by -1, as in the tests:
\* a[0] = c[1], a[1] = c[2], and the same in row 1.
Wit_C18 ==
    /\ last.op = "rotate_rows_inplace"
    /\ Succeeded
    /\ last.target = -1
    /\ last.a.val = make_matrix
    /\ ct[last.dst].val[SlotAt(0, 1)] = 1 /\ ct[last.dst].val[SlotAt(0, 2)] = -2
    /\ ct[last.dst].val[SlotAt(1, 1)] = -1 /\ ct[last.dst].val[SlotAt(1, 2)] = 2

\* C19: rotate_columns (and rotate_columns_inplace) swaps the two rows, element
\* i of row 0 with element i of row 1, and applied twice gives back the
\* ciphertext it started from.
Thm_C19 ==
    /\ (last.op \in RotateColumnsOps)
       => (/\ Succeeded
           /\ \A c \in 0..(RowLen - 1) :
                 /\ last.out.val[SlotAt(1, c)] = last.a.val[SlotAt(0, c)]
                 /\ last.out.val[SlotAt(0, c)] = last.a.val[SlotAt(1, c)]
           /\ [last.out EXCEPT !.val = 0] = [last.a EXCEPT !.val = 0]
           /\ Stored)
    /\ \A s \in Slots :
          /\ rotate_columns(rotate_columns(ct[s]).out) = EOk(ct[s])
          /\ rotate_columns_inplace(rotate_columns_inplace(ct[s]).out) = EOk(ct[s])

\* C19 witness: a ciphertext whose rows had been swapped (and rotated) had them
\* swapped back in place.
Wit_C19 ==
    /\ last.op = "rotate_columns_inplace"
    /\ Succeeded
    /\ last.a.val[SlotAt(1, 1)] = 1 /\ last.a.val[SlotAt(0, 1)] = -1
    /\ ct[last.dst].val[SlotAt(0, 1)] = 1 /\ ct[last.dst].val[SlotAt(1, 1)] = -1

(* --------------------------- claims: values ----------------------------- *)

\* The integers decode_i64 can return.
InRange(n) == -(PlainModulus \div 2) <= n /\ 2 * n < PlainModulus

\* A ciphertext as the encryptor returns it, a plaintext as the encoder does.
Fresh(c) == c = Encrypted(scheme, c.val)
FreshPlain(p) == p = Encoded(scheme, NumLevels, p.val)

\* The integer the operation computes on the decoded operands.
Expected(op, x, y) ==
    CASE op \in {"add", "add_inplace", "add_plain", "add_plain_inplace"} -> x + y
      [] op \in {"sub", "sub_inplace", "sub_plain", "sub_plain_inplace"} -> x - y
      [] op \in {"multiply", "multiply_inplace", "multiply_plain", "multiply_plain_inplace"}
            -> x * y
      [] op \in NegateOps -> -x

\* The ciphertext operation a plaintext operation corresponds to, applied to
\* the encryption of the plaintext.
Counterpart(op, a, p) ==
    CASE op \in {"add_plain", "add_plain_inplace"} -> add(a, Encrypted(scheme, p.val))
      [] op \in {"sub_plain", "sub_plain_inplace"} -> sub(a, Encrypted(scheme, p.val))
      [] op \in {"multiply_plain", "multiply_plain_inplace"}
            -> multiply(a, Encrypted(scheme, p.val))

\* C22: add, sub, multiply and negate of freshly encrypted ciphertexts succeed
\* and, when the sum, difference, product or negation of the decoded operands
\* is an integer the decoder can return, the result decodes to it; add_plain,
\* sub_plain and multiply_plain of a fresh ciphertext and a fresh plaintext
\* succeed, decode likewise, and carry the value their ciphertext counterpart
\* gives on the encrypted plaintext.
Thm_C22 ==
    LET x == decode_i64(last.a.val)
        y == decode_i64(last.b.val)
    IN  /\ (/\ last.op \in AddSubOps \cup MultiplyOps \cup NegateOps
            /\ Fresh(last.a)
            /\ last.op \notin NegateOps => Fresh(last.b))
           => /\ last.status = "Ok"
              /\ InRange(Expected(last.op, x, y))
                 => decode_i64(last.out.val) = Expected(last.op, x, y)
        /\ (/\ last.op \in AddSubPlainOps \cup MultiplyPlainOps
            /\ Fresh(last.a)
            /\ FreshPlain(last.b))
           => /\ last.status = "Ok"
              /\ InRange(Expected(last.op, x, y))
                 => decode_i64(last.out.val) = Expected(last.op, x, y)
              /\ last.out.val = Counterpart(last.op, last.a, last.b).out.val

\* A subtraction of fresh ciphertexts of 0 and 1 has succeeded; the result
\* holds the top residue, which decodes to -1.
Wit_C22 ==
    /\ last.op = "sub" /\ Succeeded
    /\ Fresh(last.a) /\ Fresh(last.b)
    /\ decode_i64(last.a.val) = 0 /\ decode_i64(last.b.val) = 1
    /\ last.out.val = PlainModulus - 1 /\ decode_i64(last.out.val) = -1

(* --------------------------- claims: scales ----------------------------- *)

InplaceOps ==
    {"negate_inplace", "add_inplace", "sub_inplace", "multiply_inplace", "square_inplace",
     "add_plain_inplace", "sub_plain_inplace", "multiply_plain_inplace",
     "relinearize_inplace", "rescale_to_next_inplace", "mod_switch_to_next_inplace",
     "mod_switch_to_inplace", "exponentiate_inplace", "rotate_rows_inplace",
     "rotate_columns_inplace"}

\* C23: under the scale-tracking scheme, add, sub, add_plain and sub_plain (in
\* place or not) on operands at one level whose scales differ by more than the
\* tolerance fail and produce no result, an operand to be mutated staying as
\* it was; when they succeed the scales match within the tolerance.
Thm_C23 ==
    (/\ scheme = "CKKS"
     /\ last.op \in AddSubOps \cup AddSubPlainOps
     /\ last.a.level = last.b.level)
    => /\ ~ScaleClose(last.a.scale, last.b.scale)
          => /\ last.status # "Ok"
             /\ last.out = Ciphertext_new
             /\ last.op \in InplaceOps => ct[last.dst] = last.a
       /\ Succeeded => ScaleClose(last.a.scale, last.b.scale)

\* A product of two fresh ciphertexts, rescaled, is added to a ciphertext that
\* was switched down to the same level: the scales differ and the call failed.
Wit_C23 ==
    /\ scheme = "CKKS"
    /\ last.op = "add_inplace"
    /\ last.a.level = NumLevels - 1 /\ last.b.level = NumLevels - 1
    /\ IsQuotient(last.a.scale, RMul(EncScale("CKKS"), EncScale("CKKS")), Modulus(NumLevels))
    /\ last.b.scale = EncScale("CKKS")
    /\ last.status = "EngineFailure"
    /\ ct[last.dst] = last.a

(* ------------------------- claims: level order -------------------------- *)

\* The ciphertext an operation starts from: its operand, or the head of its list.
Origin == IF last.a = NoArg /\ last.args # <<>> THEN last.args[1] ELSE last.a

RanOn(trace, op, v) == {i \in 1..Len(trace) : trace[i].op = op /\ trace[i].dst = v}

\* The evaluation on a fresh ciphertext ran to its end, every statement
\* succeeding, and the final add and add_plain_inplace found operands with one
\* level id and one scale.
PolyCompletes ==
    /\ Succeeded
    /\ Len(last.args) = Len(PolySteps)
    /\ \A i \in 1..Len(last.args) :
          last.args[i].op = PolySteps[i].op /\ last.args[i].status = "Ok"
    /\ \A i \in {Len(last.args) - 1, Len(last.args)} :
          /\ last.args[i].op \in {"add", "add_plain_inplace"}
          /\ last.args[i].a.level = last.args[i].b.level
          /\ last.args[i].a.scale = last.args[i].b.scale
    /\ ct[last.dst] = last.out

PolyInput == last.op = "polynomial" /\ last.a = Encrypted("CKKS", 0)

\* C25, as claimed: on a fresh ciphertext the evaluation completes with every
\* step succeeding and matching operands for the final add and add_plain, and
\* each of the two ciphertext terms and the constant plaintext is mod-switched
\* twice.
Orig_C25 ==
    PolyInput
    => /\ PolyCompletes
       /\ Cardinality(RanOn(last.args, "mod_switch_to_inplace", "x3_encrypted")) = 2
       /\ Cardinality(RanOn(last.args, "mod_switch_to_inplace", "x1_encrypted")) = 2
       /\ Cardinality(RanOn(last.args, "mod_switch_to_inplace_plaintext", "plain_coeff0")) = 2

\* C25, amended: as above, except that the cubic term is mod-switched once;
\* the linear term and the constant plaintext are mod-switched twice.
Thm_C25 ==
    PolyInput
    => /\ PolyCompletes
       /\ Cardinality(RanOn(last.args, "mod_switch_to_inplace", "x3_encrypted")) = 1
       /\ Cardinality(RanOn(last.args, "mod_switch_to_inplace", "x1_encrypted")) = 2
       /\ Cardinality(RanOn(last.args, "mod_switch_to_inplace_plaintext", "plain_coeff0")) = 2

\* C25 witness: the evaluation ran on a fresh ciphertext; its add found both
\* terms at the lowest level with the encoding scale, after set_scale replaced
\* two different scales.
Wit_C25 ==
    /\ PolyInput
    /\ Succeeded
    /\ last.args[14].op = "set_scale" /\ last.args[15].op = "set_scale"
    /\ last.args[14].a.scale # last.args[15].a.scale
    /\ last.args[18].op = "add"
    /\ last.args[18].a.level = get_last_parms_id /\ last.args[18].b.level = get_last_parms_id
    /\ last.args[18].a.scale = EncScale("CKKS") /\ last.args[18].b.scale = EncScale("CKKS")
    /\ ct[last.dst].level = get_last_parms_id

(* ----------------------- claims: in-place operations -------------------- *)

MutatingOps ==
    {"add_inplace", "sub_inplace", "multiply_inplace", "square_inplace",
     "relinearize_inplace", "rescale_to_next_inplace", "mod_switch_to_next_inplace",
     "rotate_rows_inplace", "rotate_columns_inplace", "exponentiate_inplace"}

Functional(l) ==
    CASE l.op = "negate_inplace" -> negate(l.a)
      [] l.op = "add_inplace" -> add(l.a, l.b)
      [] l.op = "sub_inplace" -> sub(l.a, l.b)
      [] l.op = "multiply_inplace" -> multiply(l.a, l.b)
      [] l.op = "square_inplace" -> square(l.a)
      [] l.op = "mod_switch_to_next_inplace" -> mod_switch_to_next(l.a)
      [] l.op = "mod_switch_to_next_inplace_plaintext" -> mod_switch_to_next_plaintext(l.a)
      [] l.op = "exponentiate_inplace" -> exponentiate(l.a, l.target, l.keys)
      [] l.op = "add_plain_inplace" -> add_plain(l.a, l.b)
      [] l.op = "sub_plain_inplace" -> sub_plain(l.a, l.b)
      [] l.op = "multiply_plain_inplace" -> multiply_plain(l.a, l.b)
      [] l.op = "relinearize_inplace" -> relinearize(l.a, l.keys)
      [] l.op = "rotate_rows_inplace" -> rotate_rows(l.a, l.target)
      [] l.op = "rotate_columns_inplace" -> rotate_columns(l.a)
      [] l.op = "rescale_to_next_inplace" -> rescale_to_next(scheme, l.a)

PairedInplaceOps ==
    {"negate_inplace", "add_inplace", "sub_inplace", "multiply_inplace", "square_inplace",
     "mod_switch_to_next_inplace", "mod_switch_to_next_inplace_plaintext",
     "exponentiate_inplace", "add_plain_inplace", "sub_plain_inplace",
     "multiply_plain_inplace", "relinearize_inplace", "rotate_rows_inplace",
     "rotate_columns_inplace", "rescale_to_next_inplace"}

FunctionalOps ==
    {"negate", "add", "sub", "multiply", "square", "mod_switch_to_next",
     "mod_switch_to_next_plaintext", "exponentiate", "add_plain", "sub_plain",
     "multiply_plain", "relinearize", "rotate_rows", "rotate_columns", "rescale_to_next"}

Mutators(s) == {c \in Callers : Running(c) /\ calls[c].slot = s}

\* C20, as claimed: a ciphertext is mutated by at most one in-place operation
\* at a time, whichever in-place operations the callers issue.
Orig_C20 == \A s \in Slots : Cardinality(Mutators(s)) <= 1

\* What a call, run by itself on the ciphertext as it was at entry, leaves in
\* the ciphertexts.
RunAlone(call) ==
    LET r == Apply(call, call.seen)
    IN  IF r.status = "Ok" THEN [ct EXCEPT ![call.slot] = r.out] ELSE ct

====
